---- MODULE Spec2Model ----
(***************************************************************************)
(* Image feature extraction and spreadsheet export: the ExcelExporter      *)
(* (excel_exporter.py), ImageProcessor.extract_all_features                *)
(* (image_processor.py) and the batch driver process_multiple_images       *)
(* (main.py).                                                              *)
(*                                                                         *)
(* Numbers are fixed-point with two decimals: Num(h) is the number h/100,  *)
(* the resolution of every round(x, 2) in the code.  A Python dict is the  *)
(* sequence of its items in insertion order.  A workbook is the sequence   *)
(* of its sheets; workbook.save succeeds (I/O errors of the document       *)
(* writer are outside the model) and leaves the workbook at the output     *)
(* path, the variable disk.                                                *)
(***************************************************************************)
EXTENDS Integers, Sequences, FiniteSets, TLC

VARIABLES
    exporter,       \* the ExcelExporter instance: self.workbook, self.worksheet
    disk,           \* the document at output_path (<<>>: no file)
    saves,          \* number of workbook.save calls so far
    call,           \* the export call made last (or about to be made)
    result,         \* how that call ended: "pending", "ok" or the exception
    ncalls,         \* number of export calls made on the instance
    trial,          \* extract_all_features: the image and what its primitives do
    extracted,      \* extract_all_features: its outcome
    image_paths,    \* process_multiple_images: the batch
    with_summary,   \* process_multiple_images: its flag
    idx,            \* process_multiple_images: images attempted so far
    features_list,  \* process_multiple_images: the accumulating records
    outcomes,       \* per attempted image, whether extraction returned a record
    pc,             \* process_multiple_images: position in the function
    exit_code       \* sys.exit status (0: returned normally or still running)

exporterVars == <<exporter, disk, saves>>
callVars == <<call, result, ncalls>>
extractVars == <<trial, extracted>>
driverVars == <<image_paths, with_summary, idx, features_list, outcomes, pc, exit_code>>
vars == <<exporter, disk, saves, call, result, ncalls, trial, extracted,
          image_paths, with_summary, idx, features_list, outcomes, pc, exit_code>>

(***************************************************************************)
(* Bounds of the model.                                                    *)
(***************************************************************************)
\* longest record list given to one export call of SpecExport
MaxRecords == 2
\* longest record list given to one export call of Spec
MaxBatch == 2
\* export calls made on one exporter instance in Spec
MaxCalls == 2
\* longest batch of images given to process_multiple_images
MaxImages == 2

\* round(x, 2): two decimals, so one unit of Num is 1/100
Scale == 100

(***************************************************************************)
(* Values and dicts.                                                       *)
(***************************************************************************)
Num(h) == [kind |-> "num", num |-> h, txt |-> ""]
Str(s) == [kind |-> "str", num |-> 0, txt |-> s]

\* features.keys()
dict_keys(f) == {f[i].key : i \in DOMAIN f}

\* features.get(key, default)
dict_get(f, k, default) ==
    IF k \in dict_keys(f)
    THEN f[CHOOSE i \in DOMAIN f : f[i].key = k].value
    ELSE default

\* features[key] = value: a new key goes last, a known key keeps its place
dict_set(f, k, v) ==
    IF k \in dict_keys(f)
    THEN [i \in DOMAIN f |-> IF f[i].key = k THEN [key |-> k, value |-> v] ELSE f[i]]
    ELSE Append(f, [key |-> k, value |-> v])

\* features.update(properties)
RECURSIVE dict_update(_, _)
dict_update(f, g) ==
    IF g = <<>> THEN f
    ELSE dict_update(dict_set(f, Head(g).key, Head(g).value), Tail(g))

(***************************************************************************)
(* sorted(list(all_keys)): Python orders str by code points.               *)
(***************************************************************************)
ord(k) ==
    CASE k = "image_path" -> <<105, 109, 97, 103, 101, 95, 112, 97, 116, 104>>
      [] k = "extracted_text" -> <<101, 120, 116, 114, 97, 99, 116, 101, 100, 95, 116, 101, 120, 116>>
      [] k = "width" -> <<119, 105, 100, 116, 104>>
      [] k = "height" -> <<104, 101, 105, 103, 104, 116>>
      [] k = "channels" -> <<99, 104, 97, 110, 110, 101, 108, 115>>
      [] k = "file_size_kb" -> <<102, 105, 108, 101, 95, 115, 105, 122, 101, 95, 107, 98>>
      [] k = "aspect_ratio" -> <<97, 115, 112, 101, 99, 116, 95, 114, 97, 116, 105, 111>>
      [] k = "total_pixels" -> <<116, 111, 116, 97, 108, 95, 112, 105, 120, 101, 108, 115>>
      [] k = "avg_brightness" -> <<97, 118, 103, 95, 98, 114, 105, 103, 104, 116, 110, 101, 115, 115>>
      [] k = "edge_count" -> <<101, 100, 103, 101, 95, 99, 111, 117, 110, 116>>
      [] k = "dominant_color_1" -> <<100, 111, 109, 105, 110, 97, 110, 116, 95, 99, 111, 108, 111, 114, 95, 49>>
      [] k = "dominant_color_2" -> <<100, 111, 109, 105, 110, 97, 110, 116, 95, 99, 111, 108, 111, 114, 95, 50>>
      [] k = "dominant_color_3" -> <<100, 111, 109, 105, 110, 97, 110, 116, 95, 99, 111, 108, 111, 114, 95, 51>>

\* a < b on code point sequences
RECURSIVE codes_lt(_, _)
codes_lt(a, b) ==
    IF b = <<>> THEN FALSE
    ELSE IF a = <<>> THEN TRUE
    ELSE IF Head(a) # Head(b) THEN Head(a) < Head(b)
    ELSE codes_lt(Tail(a), Tail(b))

str_lt(a, b) == codes_lt(ord(a), ord(b))

RECURSIVE sorted(_)
sorted(S) ==
    IF S = {} THEN <<>>
    ELSE LET least == CHOOSE m \in S : \A o \in S \ {m} : str_lt(m, o)
         IN <<least>> \o sorted(S \ {least})

\* key in headers
in_list(k, headers) == \E i \in DOMAIN headers : headers[i] = k

(***************************************************************************)
(* Sheets and workbooks (openpyxl).                                        *)
(***************************************************************************)
NewSheet(title) ==
    [title |-> title, rows |-> <<>>, header_styled |-> FALSE, widths_adjusted |-> FALSE]

\* Workbook(): one sheet, which is the active one
Workbook == <<NewSheet("Sheet")>>

\* self.worksheet refers to a sheet of self.workbook, or is None
NoSheet == [ref |-> "None", index |-> 0]
SheetAt(i) == [ref |-> "sheet", index |-> i]

\* sheet.append(row) on sheet i of wb
sheet_append(wb, i, row) == [wb EXCEPT ![i].rows = Append(@, row)]

\* sheet.title = title
set_title(wb, i, title) == [wb EXCEPT ![i].title = title]

\* create_sheet with a fault: the index is ignored and the sheet goes last
create_sheet_last(wb, title, index) == Append(wb, NewSheet(title))

\* workbook.create_sheet(title, index): the new sheet is inserted at index
create_sheet(wb, title, index) ==
    SubSeq(wb, 1, index) \o <<NewSheet(title)>> \o SubSeq(wb, index + 1, Len(wb))

(***************************************************************************)
(* ExcelExporter.                                                          *)
(***************************************************************************)
\* __init__
ExcelExporter == [workbook |-> <<>>, worksheet |-> NoSheet]

\* create_workbook with a fault: an existing workbook is kept
create_workbook_reuse(self) ==
    IF self.workbook = <<>>
    THEN [workbook |-> set_title(Workbook, 1, "Image Features"), worksheet |-> SheetAt(1)]
    ELSE [workbook |-> self.workbook, worksheet |-> SheetAt(1)]

create_workbook(self) ==
    [workbook |-> set_title(Workbook, 1, "Image Features"), worksheet |-> SheetAt(1)]

\* self.worksheet.append(row)
ws_append(self, row) ==
    [self EXCEPT !.workbook = sheet_append(@, self.worksheet.index, row)]

style_header(self) ==
    [self EXCEPT !.workbook[self.worksheet.index].header_styled = TRUE]

auto_adjust_column_width(self) ==
    [self EXCEPT !.workbook[self.worksheet.index].widths_adjusted = TRUE]

\* how an export call ends: the exception raised ("ok": none), the instance it
\* leaves, and whether self.workbook.save(output_path) was executed
Raised(self, exc) == [exc |-> exc, self |-> self, saved |-> FALSE]
Saved(self) == [exc |-> "ok", self |-> self, saved |-> TRUE]

\* items with a fault: the items ordered by key
items_sorted(features) ==
    LET ks == sorted(dict_keys(features))
    IN [i \in DOMAIN ks |-> [key |-> ks[i], value |-> dict_get(features, ks[i], Str(""))]]

\* features.items()
items(features) == features

\* for key, value in features.items(): self.worksheet.append([key, value])
RECURSIVE append_items(_, _)
append_items(self, its) ==
    IF its = <<>> THEN self
    ELSE append_items(ws_append(self, <<Str(Head(its).key), Head(its).value>>), Tail(its))

export_single_image(self, features) ==
    LET s1 == create_workbook(self)
        s2 == ws_append(s1, <<Str("Feature"), Str("Value")>>)
        s3 == append_items(s2, items(features))
        s4 == style_header(s3)
        s5 == auto_adjust_column_width(s4)
    IN Saved(s5)

\* is_empty with a fault: the guard is missing
is_empty_never(fl) == FALSE

\* not features_list
is_empty(fl) == fl = <<>>

\* all_keys with a fault: only the first record's keys
all_keys_first(fl) == IF fl = <<>> THEN {} ELSE dict_keys(fl[1])

\* all_keys = set(); for features in features_list: all_keys.update(features.keys())
all_keys(fl) == UNION {dict_keys(fl[i]) : i \in DOMAIN fl}

header_row(headers) == [i \in DOMAIN headers |-> Str(headers[i])]

\* data_row with a fault: a missing key gets no cell
data_row_skip(features, headers) ==
    LET present == SelectSeq(headers, LAMBDA k : k \in dict_keys(features))
    IN [i \in DOMAIN present |-> dict_get(features, present[i], Str(""))]

\* row = [features.get(key, "") for key in headers]
data_row(features, headers) ==
    [i \in DOMAIN headers |-> dict_get(features, headers[i], Str(""))]

\* for features in features_list: sheet.append(row), on sheet i of wb
RECURSIVE append_rows(_, _, _, _)
append_rows(wb, i, fl, headers) ==
    IF fl = <<>> THEN wb
    ELSE append_rows(sheet_append(wb, i, data_row(Head(fl), headers)), i, Tail(fl), headers)

export_multiple_images(self, fl) ==
    IF is_empty(fl) THEN Raised(self, "ValueError")
    ELSE
    LET s1 == create_workbook(self)
        headers == sorted(all_keys(fl))
        s2 == ws_append(s1, header_row(headers))
        s3 == [s2 EXCEPT !.workbook = append_rows(@, s2.worksheet.index, fl, headers)]
        s4 == style_header(s3)
        s5 == auto_adjust_column_width(s4)
    IN Saved(s5)

\* sum(f.get(key, 0) for f in features_list)
RECURSIVE sum_of(_, _)
sum_of(fl, k) ==
    IF fl = <<>> THEN 0
    ELSE dict_get(Head(fl), k, Num(0)).num + sum_of(Tail(fl), k)

\* round(total / n, 2) in units of 1/100: the nearest unit, a tie to the even one
round2(total, n) ==
    LET q == total \div n
        r == total % n
    IN IF 2 * r < n THEN q
       ELSE IF 2 * r > n THEN q + 1
       ELSE IF q % 2 = 0 THEN q ELSE q + 1

\* mean with a fault: the records that lack the key are left out of the count
mean_of_present(fl, k) ==
    LET n == Cardinality({i \in DOMAIN fl : k \in dict_keys(fl[i])})
    IN round2(sum_of(fl, k), IF n = 0 THEN 1 ELSE n)

\* round(sum(f.get(key, 0) for f in features_list) / len(features_list), 2)
mean(fl, k) == round2(sum_of(fl, k), Len(fl))

\* has_dimensions with a fault: either column is enough
has_dimensions_either(headers) == in_list("width", headers) \/ in_list("height", headers)

\* 'width' in headers and 'height' in headers
has_dimensions(headers) == in_list("width", headers) /\ in_list("height", headers)

\* the rows appended to the summary sheet
summary_rows(fl, headers) ==
    <<  <<Str("Summary"), Str("")>>,
        <<Str("Total Images Processed"), Num(Scale * Len(fl))>>  >>
    \o (IF in_list("avg_brightness", headers)
        THEN << <<Str("Average Brightness"), Num(mean(fl, "avg_brightness"))>> >>
        ELSE <<>>)
    \o (IF has_dimensions(headers)
        THEN << <<Str("Average Width"), Num(mean(fl, "width"))>>,
                <<Str("Average Height"), Num(mean(fl, "height"))>> >>
        ELSE <<>>)

\* append_all with a fault: the rows go to the last sheet, not to sheet i
RECURSIVE append_all_last(_, _, _)
append_all_last(wb, i, rows) ==
    IF rows = <<>> THEN wb
    ELSE append_all_last(sheet_append(wb, Len(wb), Head(rows)), i, Tail(rows))

\* summary_sheet.append(row) for each of rows, on sheet i of wb
RECURSIVE append_all(_, _, _)
append_all(wb, i, rows) ==
    IF rows = <<>> THEN wb
    ELSE append_all(sheet_append(wb, i, Head(rows)), i, Tail(rows))

export_with_summary(self, fl) ==
    IF is_empty(fl) THEN Raised(self, "ValueError")
    ELSE
    LET \* self.workbook = Workbook(); data_sheet = self.workbook.active
        wb1 == set_title(Workbook, 1, "Image Data")
        headers == sorted(all_keys(fl))
        wb2 == sheet_append(wb1, 1, header_row(headers))
        wb3 == append_rows(wb2, 1, fl, headers)
        \* self.worksheet = data_sheet
        s4 == auto_adjust_column_width(style_header(
                  [workbook |-> wb3, worksheet |-> SheetAt(1)]))
        \* summary_sheet = self.workbook.create_sheet("Summary", 0)
        wb5 == create_sheet(s4.workbook, "Summary", 0)
        at == CHOOSE i \in DOMAIN wb5 : wb5[i].title = "Summary"
        wb6 == append_all(wb5, at, summary_rows(fl, headers))
        \* self.worksheet = summary_sheet
        s7 == auto_adjust_column_width(style_header(
                  [workbook |-> wb6, worksheet |-> SheetAt(at)]))
    IN Saved(s7)

\* the export methods by name
export(op, self, features, fl) ==
    CASE op = "export_single_image" -> export_single_image(self, features)
      [] op = "export_multiple_images" -> export_multiple_images(self, fl)
      [] op = "export_with_summary" -> export_with_summary(self, fl)

\* the effect of one export call on the instance and on the output path
Apply(out) ==
    /\ exporter' = out.self
    /\ disk' = IF out.saved THEN out.self.workbook ELSE disk
    /\ saves' = IF out.saved THEN saves + 1 ELSE saves
    /\ result' = out.exc

(***************************************************************************)
(* The records given to the exporter.                                      *)
(***************************************************************************)
InputKeys == {"avg_brightness", "width", "height"}

InputValues(k) ==
    CASE k = "avg_brightness" -> {1000, 1001}
      [] k = "width" -> {10000, 20000}
      [] k = "height" -> {5000, 10000}

InputItems == UNION {{[key |-> k, value |-> Num(v)] : v \in InputValues(k)} : k \in InputKeys}

\* every dict over InputItems, in every insertion order
Dicts ==
    {f \in UNION {[1..n -> InputItems] : n \in 0..Cardinality(InputKeys)} :
        \A i, j \in DOMAIN f : i # j => f[i].key # f[j].key}

\* the place of a key in the order in which extract_all_features inserts the keys
place(k) == CASE k = "width" -> 1 [] k = "height" -> 2 [] k = "avg_brightness" -> 3

\* the dicts given in lists: every insertion order of up to two keys, and of all
\* three keys the order of extract_all_features and its reverse
BatchDicts ==
    {f \in Dicts :
        \/ \A i, j \in DOMAIN f : i < j => place(f[i].key) < place(f[j].key)
        \/ \A i, j \in DOMAIN f : i < j => place(f[i].key) > place(f[j].key)}

Lists(D, n) == UNION {[1..m -> D] : m \in 0..n}

\* the records of the calls of Spec
Example1 ==
    << [key |-> "width", value |-> Num(10000)], [key |-> "height", value |-> Num(5000)],
       [key |-> "avg_brightness", value |-> Num(1000)] >>
Example2 ==
    << [key |-> "width", value |-> Num(20000)], [key |-> "height", value |-> Num(10000)] >>
CallDicts ==
    { Example1, Example2, <<>>,
      << [key |-> "avg_brightness", value |-> Num(1001)],
         [key |-> "width", value |-> Num(10000)] >> }

NoCall == [op |-> "none", features |-> <<>>, features_list |-> <<>>]

IdleExtract == trial = <<>> /\ extracted = <<>>
IdleDriver ==
    /\ image_paths = <<>> /\ with_summary = FALSE /\ idx = 0 /\ features_list = <<>>
    /\ outcomes = <<>> /\ pc = "idle" /\ exit_code = 0

(***************************************************************************)
(* Spec: export calls, one after the other, on one ExcelExporter.          *)
(***************************************************************************)
Init ==
    /\ exporter = ExcelExporter /\ disk = <<>> /\ saves = 0
    /\ call = NoCall /\ result = "pending" /\ ncalls = 0
    /\ IdleExtract /\ IdleDriver

Call(op, features, fl) ==
    /\ Apply(export(op, exporter, features, fl))
    /\ call' = [op |-> op, features |-> features, features_list |-> fl]
    /\ ncalls' = ncalls + 1
    /\ UNCHANGED <<extractVars, driverVars>>

ExportSingleImage ==
    /\ ncalls < MaxCalls
    /\ \E f \in CallDicts : Call("export_single_image", f, <<>>)

ExportMultipleImages ==
    /\ ncalls < MaxCalls
    /\ \E fl \in Lists(CallDicts, MaxBatch) : Call("export_multiple_images", <<>>, fl)

ExportWithSummary ==
    /\ ncalls < MaxCalls
    /\ \E fl \in Lists(CallDicts, MaxBatch) : Call("export_with_summary", <<>>, fl)

Next == ExportSingleImage \/ ExportMultipleImages \/ ExportWithSummary

Spec == Init /\ [][Next]_vars

(***************************************************************************)
(* SpecExport: one export call on a new ExcelExporter, for every input.    *)
(***************************************************************************)
InitExport ==
    /\ exporter = ExcelExporter /\ disk = <<>> /\ saves = 0
    /\ result = "pending" /\ ncalls = 0
    /\ \/ \E f \in Dicts :
            call = [op |-> "export_single_image", features |-> f, features_list |-> <<>>]
       \/ \E op \in {"export_multiple_images", "export_with_summary"} :
            \E fl \in Lists(BatchDicts, MaxRecords) :
                call = [op |-> op, features |-> <<>>, features_list |-> fl]
    /\ IdleExtract /\ IdleDriver

Run(op) ==
    /\ result = "pending"
    /\ Apply(export(op, exporter, call.features, call.features_list))
    /\ ncalls' = ncalls + 1
    /\ UNCHANGED <<call, extractVars, driverVars>>

RunSingleImage ==
    /\ call.op = "export_single_image"
    /\ Run("export_single_image")

RunMultipleImages ==
    /\ call.op = "export_multiple_images"
    /\ Run("export_multiple_images")

RunWithSummary ==
    /\ call.op = "export_with_summary"
    /\ Run("export_with_summary")

NextExport == RunSingleImage \/ RunMultipleImages \/ RunWithSummary

SpecExport == InitExport /\ [][NextExport]_vars

(***************************************************************************)
(* ImageProcessor.  env is what the external primitives do for one image:  *)
(* whether each sub-operation's primitives work (cv2.imread returning None *)
(* makes load_image raise ValueError) and the values they measure.         *)
(***************************************************************************)
Returns(v) == [exc |-> "ok", value |-> v]
Raises(exc) == [exc |-> exc, value |-> <<>>]

\* try: ... return text.strip()  except Exception as e: return f"Error ..."
extract_text(env) ==
    IF env.ocr = "ok" THEN env.text
    ELSE "Error extracting text: " \o env.ocr_error

get_image_properties(env) ==
    IF env.properties = "fail" THEN Raises("ValueError")
    ELSE Returns(<<
        [key |-> "width", value |-> Num(Scale * env.width)],
        [key |-> "height", value |-> Num(Scale * env.height)],
        [key |-> "channels", value |-> Num(Scale * env.channels)],
        [key |-> "file_size_kb", value |-> Num(round2(Scale * env.file_size, 1024))],
        [key |-> "aspect_ratio", value |-> Num(round2(Scale * env.width, env.height))],
        [key |-> "total_pixels", value |-> Num(Scale * (env.width * env.height))] >>)

\* calculate_brightness with a fault: a failure is swallowed and 0 returned
calculate_brightness_swallow(env) ==
    IF env.brightness = "fail" THEN Returns(Num(0))
    ELSE Returns(Num(env.mean_gray))

\* round(float(np.mean(gray)), 2); env.mean_gray is that value in 1/100
calculate_brightness(env) ==
    IF env.brightness = "fail" THEN Raises("ValueError")
    ELSE Returns(Num(env.mean_gray))

detect_edges(env) ==
    IF env.edges = "fail" THEN Raises("ValueError")
    ELSE Returns(Num(Scale * env.edge_pixels))

\* [tuple(color) for color in centers]: n_colors cluster centers
detect_dominant_colors(env, n_colors) ==
    IF env.colors = "fail" THEN Raises("ValueError")
    ELSE Returns([i \in 1..n_colors |-> env.centers[i]])

color_key(i) ==
    CASE i = 1 -> "dominant_color_1" [] i = 2 -> "dominant_color_2"
      [] i = 3 -> "dominant_color_3"

\* for i, color in enumerate(dominant_colors): features[f'dominant_color_{i+1}'] = ...
RECURSIVE set_colors(_, _, _)
set_colors(features, colors, i) ==
    IF i > Len(colors) THEN features
    ELSE set_colors(dict_set(features, color_key(i), Str("RGB" \o colors[i])), colors, i + 1)

extract_all_features(image_path, env) ==
    LET f1 == dict_set(<<>>, "image_path", Str(image_path))
        f2 == dict_set(f1, "extracted_text", Str(extract_text(env)))
        properties == get_image_properties(env)
        f3 == dict_update(f2, properties.value)
        brightness == calculate_brightness(env)
        f4 == dict_set(f3, "avg_brightness", brightness.value)
        edges == detect_edges(env)
        f5 == dict_set(f4, "edge_count", edges.value)
        dominant_colors == detect_dominant_colors(env, 3)
        f6 == set_colors(f5, dominant_colors.value, 1)
    IN IF properties.exc # "ok" THEN [exc |-> properties.exc, features |-> <<>>]
       ELSE IF brightness.exc # "ok" THEN [exc |-> brightness.exc, features |-> <<>>]
       ELSE IF edges.exc # "ok" THEN [exc |-> edges.exc, features |-> <<>>]
       ELSE IF dominant_colors.exc # "ok"
            THEN [exc |-> dominant_colors.exc, features |-> <<>>]
       ELSE [exc |-> "ok", features |-> f6]

Images == {"a.png", "b.png"}

Outcome == {"ok", "fail"}

Envs ==
    [ ocr : Outcome, text : {"INVOICE 42"}, ocr_error : {"tesseract is not installed"},
      properties : Outcome, brightness : Outcome, edges : Outcome, colors : Outcome,
      width : {2, 3}, height : {2, 3}, channels : {3}, file_size : {1536},
      mean_gray : {12750}, edge_pixels : {4},
      centers : {<<"(200, 10, 10)", "(10, 200, 10)", "(10, 10, 200)">>} ]

IdleExporter == exporter = ExcelExporter /\ disk = <<>> /\ saves = 0
IdleCall == call = NoCall /\ result = "pending" /\ ncalls = 0

(***************************************************************************)
(* SpecExtract: extract_all_features on one image, for every env.          *)
(***************************************************************************)
InitExtract ==
    /\ \E p \in Images : \E env \in Envs : trial = [image_path |-> p, env |-> env]
    /\ extracted = <<>>
    /\ IdleExporter /\ IdleCall /\ IdleDriver

ExtractAllFeatures ==
    /\ extracted = <<>>
    /\ extracted' = extract_all_features(trial.image_path, trial.env)
    /\ UNCHANGED <<trial, exporterVars, callVars, driverVars>>

NextExtract == ExtractAllFeatures

SpecExtract == InitExtract /\ [][NextExtract]_vars

(***************************************************************************)
(* SpecDriver: process_multiple_images.                                    *)
(***************************************************************************)
InitDriver ==
    /\ image_paths \in Lists(Images, MaxImages) \ {<<>>}
    /\ with_summary \in BOOLEAN
    /\ idx = 0 /\ features_list = <<>> /\ outcomes = <<>>
    /\ pc = "loop" /\ exit_code = 0
    /\ IdleExporter /\ IdleCall /\ IdleExtract

\* after_failure with a fault: break, the rest of the batch is skipped
after_failure_break(i, n) == n

\* except Exception: ... continue: i images are done, the loop goes on with the next
after_failure(i, n) == i + 1

\* one pass of the for loop: the image at idx is extracted, and appended or skipped
ProcessImage ==
    /\ pc = "loop"
    /\ idx < Len(image_paths)
    /\ \E env \in Envs :
          LET r == extract_all_features(image_paths[idx + 1], env)
              done == IF r.exc = "ok" THEN idx + 1
                      ELSE after_failure(idx, Len(image_paths))
          IN /\ features_list' = IF r.exc = "ok" THEN Append(features_list, r.features)
                                 ELSE features_list
             /\ outcomes' = Append(outcomes, r)
             /\ idx' = done
             /\ pc' = IF done < Len(image_paths) THEN "loop" ELSE "check"
    /\ UNCHANGED <<image_paths, with_summary, exit_code, exporterVars, callVars, extractVars>>

\* no_features with a fault: the check is missing
no_features_never(fl) == FALSE

\* not features_list, after the loop
no_features(fl) == fl = <<>>

\* if not features_list: sys.exit(1)
NoneProcessed ==
    /\ pc = "check"
    /\ no_features(features_list)
    /\ pc' = "exit"
    /\ exit_code' = 1
    /\ UNCHANGED <<image_paths, with_summary, idx, features_list, outcomes,
                   exporterVars, callVars, extractVars>>

\* try: exporter.export_...(features_list, output_path)  except Exception: sys.exit(1)
ExportBatch ==
    /\ pc = "check"
    /\ ~no_features(features_list)
    /\ LET op == IF with_summary THEN "export_with_summary" ELSE "export_multiple_images"
           out == export(op, exporter, <<>>, features_list)
       IN /\ Apply(out)
          /\ call' = [op |-> op, features |-> <<>>, features_list |-> features_list]
          /\ ncalls' = ncalls + 1
          /\ pc' = IF out.exc = "ok" THEN "done" ELSE "exit"
          /\ exit_code' = IF out.exc = "ok" THEN 0 ELSE 1
    /\ UNCHANGED <<image_paths, with_summary, idx, features_list, outcomes, extractVars>>

NextDriver == ProcessImage \/ NoneProcessed \/ ExportBatch

SpecDriver == InitDriver /\ [][NextDriver]_vars

(***************************************************************************)
(* Properties of the exporter.                                             *)
(***************************************************************************)
Done(op) == call.op = op /\ result # "pending"

\* the rows of sheet whose first cell is the label
Labelled(sheet, label) ==
    {i \in DOMAIN sheet.rows : Len(sheet.rows[i]) > 0 /\ sheet.rows[i][1] = Str(label)}

\* record f has key k with value v
Holds(f, k, v) == \E j \in DOMAIN f : f[j].key = k /\ f[j].value = v
Has(f, k) == \E j \in DOMAIN f : f[j].key = k
SomeHas(fl, k) == \E i \in DOMAIN fl : Has(fl[i], k)

\* sheet is the reconciled table of the records fl
IsTable(sheet, fl) ==
    /\ Len(sheet.rows) = Len(fl) + 1
    /\ LET header == sheet.rows[1]
       IN /\ \A c \in DOMAIN header : header[c].kind = "str"
          /\ {header[c].txt : c \in DOMAIN header} =
                 {k \in InputKeys : SomeHas(fl, k)}
          /\ \A c, d \in DOMAIN header : c < d => str_lt(header[c].txt, header[d].txt)
          /\ \A i \in DOMAIN fl :
                /\ Len(sheet.rows[i + 1]) = Len(header)
                /\ \A c \in DOMAIN header :
                      LET cell == sheet.rows[i + 1][c]
                      IN IF Has(fl[i], header[c].txt)
                         THEN Holds(fl[i], header[c].txt, cell)
                         ELSE cell = Str("")

\* C1: for a non-empty list of N records export_multiple_images writes a sheet
\* whose header row is the sorted union of the records' keys, without
\* duplicates, followed by N data rows in the order of the records, each with
\* one cell per column: the record's value for the column, or "" when the
\* record lacks the key.
C1_MultipleTable ==
    (Done("export_multiple_images") /\ call.features_list # <<>>) =>
        /\ result = "ok"
        /\ Len(disk) = 1
        /\ IsTable(disk[1], call.features_list)

C1_Witness ==
    /\ Done("export_multiple_images") /\ result = "ok"
    /\ Len(call.features_list) = 2
    /\ Len(disk[1].rows[1]) = 3
    /\ dict_keys(call.features_list[1]) = {"width"}
    /\ dict_keys(call.features_list[2]) = {"height", "avg_brightness"}
    /\ disk[1].rows[2][1] = Str("")

\* C2: an export_multiple_images or export_with_summary call with an empty
\* list ends with the empty-input error (ValueError) and does not save: the
\* document at the output path and the number of saves are as before the call.
C2_EmptyListWritesNothing ==
    [][(/\ ncalls' = ncalls + 1
        /\ call'.op \in {"export_multiple_images", "export_with_summary"}
        /\ call'.features_list = <<>>)
       => (result' = "ValueError" /\ disk' = disk /\ saves' = saves)]_vars

C2_Witness ==
    /\ Done("export_with_summary") /\ call.features_list = <<>>
    /\ result = "ValueError"
    /\ saves = 1 /\ ncalls = 2 /\ Len(disk) = 1

\* the summary sheet of a written document
IsSummary(sheet) == sheet.title = "Summary"

\* C3: for a non-empty list of N records export_with_summary writes a summary
\* sheet whose 'Total Images Processed' value is N, and which has an 'Average
\* Brightness' row exactly when some record has the key avg_brightness.
C3_SummaryCount ==
    (Done("export_with_summary") /\ call.features_list # <<>>) =>
        /\ result = "ok"
        /\ Cardinality({s \in DOMAIN disk : IsSummary(disk[s])}) = 1
        /\ \A s \in DOMAIN disk : IsSummary(disk[s]) =>
              /\ Cardinality(Labelled(disk[s], "Total Images Processed")) = 1
              /\ \A r \in Labelled(disk[s], "Total Images Processed") :
                    disk[s].rows[r] = <<Str("Total Images Processed"),
                                        Num(Scale * Len(call.features_list))>>
              /\ (Labelled(disk[s], "Average Brightness") # {})
                     <=> SomeHas(call.features_list, "avg_brightness")

C3_Witness ==
    /\ Done("export_with_summary") /\ result = "ok"
    /\ Len(call.features_list) = 2
    /\ ~Has(call.features_list[1], "avg_brightness")
    /\ Has(call.features_list[2], "avg_brightness")
    /\ \E s \in DOMAIN disk :
          IsSummary(disk[s]) /\ Labelled(disk[s], "Average Brightness") # {}

\* the sum over all the records of the value for k, 0 for a record without k
RECURSIVE Total(_, _)
Total(fl, k) ==
    IF fl = <<>> THEN 0
    ELSE (IF Has(Head(fl), k)
          THEN (CHOOSE v \in {Head(fl)[j].value : j \in DOMAIN Head(fl)} :
                   Holds(Head(fl), k, v)).num
          ELSE 0) + Total(Tail(fl), k)

MeanRows == { <<"Average Brightness", "avg_brightness">>,
              <<"Average Width", "width">>,
              <<"Average Height", "height">> }

Abs(x) == IF x < 0 THEN -x ELSE x

\* C4 as stated: a mean row's value is the sum over all N records (0 for a
\* record that lacks the key) divided by N, exactly.
C4_MeanIsExactQuotient ==
    (Done("export_with_summary") /\ result = "ok") =>
        \A s \in DOMAIN disk : IsSummary(disk[s]) =>
            \A m \in MeanRows : \A r \in Labelled(disk[s], m[1]) :
                disk[s].rows[r][2].num * Len(call.features_list) =
                    Total(call.features_list, m[2])

\* C4, amended: a mean row's value is the sum over all N records (0 for a
\* record that lacks the key) divided by N, the total record count, and
\* rounded to two decimals: it is within half of 1/100 of sum/N.  For the
\* records {width:100,height:50,avg_brightness:10} and {width:200,height:100}
\* the Average Brightness is 5.
C4_MeanIsRoundedQuotient ==
    (Done("export_with_summary") /\ result = "ok") =>
        \A s \in DOMAIN disk : IsSummary(disk[s]) =>
            /\ \A m \in MeanRows : \A r \in Labelled(disk[s], m[1]) :
                  /\ Len(disk[s].rows[r]) = 2
                  /\ disk[s].rows[r][2].kind = "num"
                  /\ 2 * Abs(disk[s].rows[r][2].num * Len(call.features_list)
                             - Total(call.features_list, m[2]))
                        <= Len(call.features_list)
            /\ call.features_list = <<Example1, Example2>> =>
                  \E r \in Labelled(disk[s], "Average Brightness") :
                      disk[s].rows[r][2] = Num(5 * Scale)

C4_Witness ==
    /\ Done("export_with_summary") /\ result = "ok"
    /\ Len(call.features_list) = 2
    /\ Holds(call.features_list[1], "avg_brightness", Num(1001))
    /\ ~Has(call.features_list[2], "avg_brightness")
    /\ \E s \in DOMAIN disk : IsSummary(disk[s]) /\
          \E r \in Labelled(disk[s], "Average Brightness") :
              disk[s].rows[r][2].num * 2 # 1001

\* C5 as stated: each of the three mean rows is written exactly when its own
\* column is in the table, whatever the other columns.
C5_MeanRowsIndependent ==
    (Done("export_with_summary") /\ call.features_list # <<>>) =>
        /\ result = "ok"
        /\ \A s \in DOMAIN disk : IsSummary(disk[s]) =>
              \A m \in MeanRows :
                  (Labelled(disk[s], m[1]) # {}) <=> SomeHas(call.features_list, m[2])

\* C5, amended: export_with_summary never fails on a non-empty list; the
\* Average Brightness row is written exactly when avg_brightness is a column
\* of the table, and the Average Width and Average Height rows are written,
\* both, exactly when width and height are both columns of the table: a batch
\* whose records carry width but never height gets neither.
C5_MeanRowsPaired ==
    (Done("export_with_summary") /\ call.features_list # <<>>) =>
        /\ result = "ok"
        /\ \A s \in DOMAIN disk : IsSummary(disk[s]) =>
              /\ (Labelled(disk[s], "Average Brightness") # {})
                     <=> SomeHas(call.features_list, "avg_brightness")
              /\ (Labelled(disk[s], "Average Width") # {})
                     <=> (SomeHas(call.features_list, "width")
                          /\ SomeHas(call.features_list, "height"))
              /\ (Labelled(disk[s], "Average Height") # {})
                     <=> (SomeHas(call.features_list, "width")
                          /\ SomeHas(call.features_list, "height"))

C5_Witness ==
    /\ Done("export_with_summary") /\ result = "ok"
    /\ SomeHas(call.features_list, "width")
    /\ ~SomeHas(call.features_list, "height")
    /\ \E s \in DOMAIN disk :
          IsSummary(disk[s]) /\ Labelled(disk[s], "Average Width") = {}

\* C6: the document written by export_with_summary has exactly two sheets,
\* the summary sheet first and the data sheet second; the documents written
\* by export_single_image and export_multiple_images have exactly one sheet,
\* which holds the data.
C6_SheetLayout ==
    result = "ok" =>
        /\ call.op = "export_with_summary" =>
              /\ Len(disk) = 2
              /\ disk[1].title = "Summary"
              /\ disk[1].rows[1] = <<Str("Summary"), Str("")>>
              /\ disk[2].title = "Image Data"
              /\ IsTable(disk[2], call.features_list)
        /\ call.op = "export_multiple_images" =>
              /\ Len(disk) = 1
              /\ disk[1].title = "Image Features"
              /\ IsTable(disk[1], call.features_list)
        /\ call.op = "export_single_image" =>
              /\ Len(disk) = 1
              /\ disk[1].title = "Image Features"
              /\ Len(disk[1].rows) = Len(call.features) + 1

C6_Witness ==
    /\ Done("export_with_summary") /\ result = "ok"
    /\ Len(disk) = 2
    /\ Len(disk[1].rows) = 5
    /\ Len(disk[2].rows) = 3

\* C7: whatever export calls were made before on the instance, failed ones
\* included, a call ends as it does on a new ExcelExporter and writes the
\* document a new ExcelExporter writes for the same records: the sheets and
\* rows are those of this call alone.
C7_CallsIndependent ==
    ncalls > 0 =>
        LET new == export(call.op, ExcelExporter, call.features, call.features_list)
        IN /\ result = new.exc
           /\ result = "ok" =>
                 /\ disk = new.self.workbook
                 /\ exporter = new.self
                 /\ Len(disk) = (IF call.op = "export_with_summary" THEN 2 ELSE 1)
                 /\ Len(disk[Len(disk)].rows) =
                        (IF call.op = "export_single_image"
                         THEN Len(call.features) ELSE Len(call.features_list)) + 1

C7_Witness ==
    /\ ncalls = 2 /\ saves = 2 /\ result = "ok"
    /\ call.op = "export_multiple_images"
    /\ Len(call.features_list) = 1

\* C8: for a record with k keys export_single_image writes one sheet whose
\* first row is ["Feature", "Value"], followed by k rows [key, value], one per
\* key, in the record's insertion order.
C8_SingleSheet ==
    Done("export_single_image") =>
        /\ result = "ok"
        /\ Len(disk) = 1
        /\ Len(disk[1].rows) = Len(call.features) + 1
        /\ disk[1].rows[1] = <<Str("Feature"), Str("Value")>>
        /\ \A i \in DOMAIN call.features :
              disk[1].rows[i + 1] =
                  <<Str(call.features[i].key), call.features[i].value>>

C8_Witness ==
    /\ Done("export_single_image") /\ result = "ok"
    /\ Len(call.features) = 3
    /\ call.features[1].key = "width"
    /\ call.features[2].key = "avg_brightness"
    /\ disk[1].rows[2][1] = Str("width")
    /\ disk[1].rows[4][1] = Str("height")

(***************************************************************************)
(* Properties of the extractor and of the batch driver.                    *)
(***************************************************************************)
CanonicalKeys ==
    {"image_path", "extracted_text", "width", "height", "channels", "file_size_kb",
     "aspect_ratio", "total_pixels", "avg_brightness", "edge_count",
     "dominant_color_1", "dominant_color_2", "dominant_color_3"}

\* a sub-operation other than the OCR fails
NonOcrFails(env) ==
    \/ env.properties = "fail" \/ env.brightness = "fail"
    \/ env.edges = "fail" \/ env.colors = "fail"

\* C9: extract_all_features either returns a record with every canonical key,
\* each once, and total_pixels = width * height, or raises and returns no
\* record; it raises exactly when a sub-operation other than the OCR fails,
\* and when only the OCR fails the record's extracted_text is the diagnostic
\* text.
C9_AllOrNothing ==
    extracted # <<>> =>
        /\ (extracted.exc # "ok") <=> NonOcrFails(trial.env)
        /\ extracted.exc # "ok" => extracted.features = <<>>
        /\ extracted.exc = "ok" =>
              LET f == extracted.features
              IN /\ {f[i].key : i \in DOMAIN f} = CanonicalKeys
                 /\ Len(f) = Cardinality(CanonicalKeys)
                 /\ Holds(f, "image_path", Str(trial.image_path))
                 /\ \E w, h, t \in {f[i].value : i \in DOMAIN f} :
                       /\ Holds(f, "width", w) /\ Holds(f, "height", h)
                       /\ Holds(f, "total_pixels", t)
                       /\ w.num > 0 /\ h.num > 0
                       /\ t.num * Scale = w.num * h.num
                 /\ trial.env.ocr = "fail" =>
                       Holds(f, "extracted_text",
                             Str("Error extracting text: " \o trial.env.ocr_error))
                 /\ trial.env.ocr = "ok" =>
                       Holds(f, "extracted_text", Str(trial.env.text))

C9_Witness ==
    /\ extracted # <<>>
    /\ trial.env.ocr = "fail"
    /\ extracted.exc = "ok"
    /\ Len(extracted.features) = 13
    /\ Holds(extracted.features, "total_pixels", Num(Scale * 6))

\* the attempts that returned a record
OkAttempts == {i \in DOMAIN outcomes : outcomes[i].exc = "ok"}

\* the j-th of them, in the order of the batch
NthOk(j) == CHOOSE i \in OkAttempts : Cardinality({k \in OkAttempts : k <= i}) = j

\* C10: in process_multiple_images the images are attempted one by one in the
\* order of the batch, a failure does not stop the loop, and the record list,
\* which is the list handed to the exporter, is the records of the images
\* whose extraction succeeded, one each, in the order of the batch.
C10_SuccessfulRecordsInOrder ==
    pc # "idle" =>
        /\ Len(outcomes) = idx
        /\ idx <= Len(image_paths)
        /\ pc # "loop" => idx = Len(image_paths)
        /\ Len(features_list) = Cardinality(OkAttempts)
        /\ \A j \in DOMAIN features_list :
              /\ features_list[j] = outcomes[NthOk(j)].features
              /\ Holds(features_list[j], "image_path", Str(image_paths[NthOk(j)]))
        /\ ncalls > 0 => call.features_list = features_list

C10_Witness ==
    /\ pc = "done"
    /\ Len(image_paths) = 2
    /\ image_paths[1] # image_paths[2]
    /\ outcomes[1].exc # "ok"
    /\ outcomes[2].exc = "ok"
    /\ Len(call.features_list) = 1
    /\ Holds(call.features_list[1], "image_path", Str(image_paths[2]))

\* C11: process_multiple_images writes the document at most once, and only
\* after extraction has been attempted for every image of the batch: nothing
\* is exported or written while images remain.  When no image was extracted
\* successfully the run ends with exit status 1, with no export call made and
\* no file written.
C11_WriteOnceAtTheEnd ==
    pc # "idle" =>
        /\ saves <= 1 /\ ncalls <= 1
        /\ (saves > 0 \/ ncalls > 0 \/ disk # <<>>) =>
              /\ pc = "done"
              /\ Len(outcomes) = Len(image_paths)
              /\ OkAttempts # {}
              /\ saves = 1 /\ ncalls = 1
        /\ Len(outcomes) < Len(image_paths) =>
              /\ pc = "loop"
              /\ saves = 0 /\ ncalls = 0 /\ disk = <<>>
        /\ (Len(outcomes) = Len(image_paths) /\ OkAttempts = {}) =>
              /\ saves = 0 /\ ncalls = 0 /\ disk = <<>>
              /\ pc = "check" => (ENABLED NoneProcessed /\ ~ENABLED ExportBatch)
              /\ pc # "check" => (pc = "exit" /\ exit_code = 1)
        /\ pc = "done" => (saves = 1 /\ exit_code = 0)

C11_Witness ==
    /\ pc = "exit" /\ exit_code = 1
    /\ Len(image_paths) = 2
    /\ Len(outcomes) = 2
    /\ OkAttempts = {}
    /\ saves = 0 /\ ncalls = 0 /\ disk = <<>>

\* the data sheets of a written document
DataSheets(doc) == {s \in DOMAIN doc : doc[s].title = "Image Data"}

\* C12: for a non-empty record list the data sheet written by
\* export_with_summary has the header row and the data rows, in the same
\* order, of the sheet export_multiple_images writes for the same list: the
\* summary sheet changes no cell of the data sheet.
C12_SummaryKeepsDataSheet ==
    (Done("export_with_summary") /\ call.features_list # <<>>) =>
        LET plain == export_multiple_images(ExcelExporter, call.features_list)
        IN /\ result = "ok" /\ plain.exc = "ok"
           /\ Cardinality(DataSheets(disk)) = 1
           /\ Len(plain.self.workbook) = 1
           /\ \A s \in DataSheets(disk) :
                 disk[s].rows = plain.self.workbook[1].rows

C12_Witness ==
    /\ Done("export_with_summary") /\ result = "ok"
    /\ Len(call.features_list) = 2
    /\ dict_keys(call.features_list[1]) = {"width", "height", "avg_brightness"}
    /\ dict_keys(call.features_list[2]) = {"width", "height"}
    /\ \E s \in DataSheets(disk) :
          /\ Len(disk[s].rows) = 3
          /\ disk[s].rows[3][1] = Str("")
          /\ disk[s].rows = export_multiple_images(ExcelExporter,
                                call.features_list).self.workbook[1].rows

====
